---- MODULE Spec2Model ----
(***************************************************************************)
(* Model of streamlit_seo_dashboard.py: the date-window computation        *)
(* (get_date_ranges), the delta calculation (calculate_percentage_change)  *)
(* and one run of the dashboard script, which issues its provider calls    *)
(* one after another and renders one section per metric.                   *)
(*                                                                         *)
(* Dates are records [y, m, d]; the proleptic Gregorian ordinal arithmetic *)
(* of datetime.date / timedelta / relativedelta is modelled explicitly.    *)
(* Floats are modelled as exact reduced fractions [num, den].              *)
(***************************************************************************)
EXTENDS Integers, Sequences, FiniteSets, TLC

VARIABLES pc, today, use_month, months, start, sel,
          start_date, end_date, prev_start, prev_end,
          calls, rendered, cur_users, prev_users, delta_users, exc,
          current, previous, result

vars == <<pc, today, use_month, months, start, sel,
          start_date, end_date, prev_start, prev_end,
          calls, rendered, cur_users, prev_users, delta_users, exc,
          current, previous, result>>

dateVars == <<today, use_month, months, start, sel,
              start_date, end_date, prev_start, prev_end>>
runVars == <<calls, rendered, cur_users, prev_users, delta_users>>
deltaVars == <<current, previous, result>>

\* ---------------------------------------------------------------- bounds
MaxYear == 2028
MaxUsers == 2
MaxVal == 150

\* ------------------------------------------------------- calendar helpers
Date(y, m, d) == [y |-> y, m |-> m, d |-> d]
NoDate == Date(0, 0, 0)

IsLeap(y) == (y % 4 = 0) /\ ((y % 100 # 0) \/ (y % 400 = 0))

DaysInMonth(y, m) ==
    IF m = 2 THEN (IF IsLeap(y) THEN 29 ELSE 28)
    ELSE IF m \in {4, 6, 9, 11} THEN 30 ELSE 31

DaysBeforeYear(y) ==
    LET y1 == y - 1 IN y1 * 365 + (y1 \div 4) - (y1 \div 100) + (y1 \div 400)

RECURSIVE DaysBeforeMonth(_, _)
DaysBeforeMonth(y, m) ==
    IF m = 1 THEN 0 ELSE DaysBeforeMonth(y, m - 1) + DaysInMonth(y, m - 1)

\* date.toordinal()
ToOrdinal(dt) == DaysBeforeYear(dt.y) + DaysBeforeMonth(dt.y, dt.m) + dt.d

RECURSIVE MonthOfDay(_, _, _)
MonthOfDay(y, m, n) ==
    \* n is the 1-based day within year y counted from the start of month m
    IF n <= DaysInMonth(y, m) THEN Date(y, m, n)
    ELSE MonthOfDay(y, m + 1, n - DaysInMonth(y, m))

\* date.fromordinal(): the 400/100/4/1-year cycle decomposition
FromOrdinal(ord) ==
    LET n0   == ord - 1
        n400 == n0 \div 146097
        r400 == n0 % 146097
        n100 == r400 \div 36524
        r100 == r400 % 36524
        n4   == r100 \div 1461
        r4   == r100 % 1461
        n1   == r4 \div 365
        r1   == r4 % 365
        year == n400 * 400 + 1 + n100 * 100 + n4 * 4 + n1
    IN IF n1 = 4 \/ n100 = 4 THEN Date(year - 1, 12, 31)
       ELSE MonthOfDay(year, 1, r1 + 1)

\* date + timedelta(days=k)
AddDays(dt, k) == FromOrdinal(ToOrdinal(dt) + k)

\* (a - b).days
DiffDays(a, b) == ToOrdinal(a) - ToOrdinal(b)

\* date + relativedelta(months=k): month/year roll over, day clipped
AddMonths(dt, k) ==
    LET t  == (dt.m - 1) + k
        ny == dt.y + (t \div 12)
        nm == (t % 12) + 1
        dm == DaysInMonth(ny, nm)
    IN Date(ny, nm, IF dt.d > dm THEN dm ELSE dt.d)

\* a <= b on dates
DateLE(a, b) ==
    \/ a.y < b.y
    \/ a.y = b.y /\ a.m < b.m
    \/ a.y = b.y /\ a.m = b.m /\ a.d <= b.d

MonthNames == <<"January", "February", "March", "April", "May", "June",
                "July", "August", "September", "October", "November",
                "December">>

\* m.strftime('%B %Y')
MonthLabel(dt) == <<MonthNames[dt.m], dt.y>>

\* datetime.strptime(sel, '%B %Y').date()
ParseMonthLabel(s) ==
    Date(s[2], CHOOSE i \in 1..12 : MonthNames[i] = s[1], 1)

\* fmt = lambda d: d.strftime('%Y-%m-%d')
fmt(dt) == <<dt.y, dt.m, dt.d>>

\* sel_date.replace(day=1)
ReplaceDay1(dt) == Date(dt.y, dt.m, 1)

\* ------------------------------------------------- program constants
WindowDays == 30
FirstYear == 2025
CountryTopN == 5
PageTopN == 10
RowLimit == 500

NoExc == [type |-> "None", at |-> "None"]
NoDelta == [none |-> TRUE, num |-> 0, den |-> 1]

\* ------------------------------------------------ get_date_ranges pieces
\* while start <= today
LoopCondStrict(s, t) == DateLE(s, t) /\ s # t
LoopCond(s, t) == DateLE(s, t)

\* end_date = start_date + relativedelta(months=1) - timedelta(days=1)
MonthEndThirty(sd) == AddDays(sd, WindowDays)
MonthEnd(sd) == AddDays(AddMonths(sd, 1), -1)

\* start_date = end_date - timedelta(days=30)
FixedStart(ed) == AddDays(ed, -WindowDays)

\* prev_end = start_date - timedelta(days=1)
PrevEndSameDay(sd) == sd
PrevEnd(sd) == AddDays(sd, -1)

\* prev_start = prev_end - (end_date - start_date)
PrevStart(pe, sd, ed) == AddDays(pe, -DiffDays(ed, sd))

\* ------------------------------------------------------------ date inputs
MinToday == Date(FirstYear - 1, 12, 25)
Days == {FromOrdinal(n) : n \in ToOrdinal(MinToday)..ToOrdinal(Date(MaxYear, 12, 31))}

InitCommon ==
    /\ pc = "L240"
    /\ use_month \in BOOLEAN
    /\ months = <<>>
    /\ start = NoDate
    /\ sel = <<>>
    /\ start_date = <<>> /\ end_date = <<>>
    /\ prev_start = <<>> /\ prev_end = <<>>
    /\ calls = <<>>
    /\ rendered = <<[w |-> "title", sec |-> "SEO & Reporting Dashboard"]>>
    /\ cur_users = -1 /\ prev_users = -1 /\ delta_users = NoDelta
    /\ exc = NoExc
    /\ current = 0 /\ previous = 0 /\ result = NoDelta

\* get_date_ranges(False): lines 88-93
FixedRange ==
    /\ pc = "L240" /\ ~use_month
    /\ LET ed == today
           sd == FixedStart(ed)
           pe == PrevEnd(sd)
           ps == PrevStart(pe, sd, ed)
       IN /\ start_date' = fmt(sd) /\ end_date' = fmt(ed)
          /\ prev_start' = fmt(ps) /\ prev_end' = fmt(pe)
    /\ pc' = "L243"
    /\ UNCHANGED <<today, use_month, months, start, sel, exc>>
    /\ UNCHANGED runVars /\ UNCHANGED deltaVars

\* get_date_ranges(True): line 79
MonthInit ==
    /\ pc = "L240" /\ use_month
    /\ months' = <<>>
    /\ start' = Date(FirstYear, 1, 1)
    /\ pc' = "L80"
    /\ UNCHANGED <<today, use_month, sel, start_date, end_date, prev_start, prev_end, exc>>
    /\ UNCHANGED runVars /\ UNCHANGED deltaVars

\* lines 80-82: one iteration of the loop
LoopBody ==
    /\ pc = "L80" /\ LoopCond(start, today)
    /\ months' = Append(months, start)
    /\ start' = AddMonths(start, 1)
    /\ UNCHANGED <<pc, today, use_month, sel, start_date, end_date, prev_start, prev_end, exc>>
    /\ UNCHANGED runVars /\ UNCHANGED deltaVars

\* line 80: the loop condition is false
LoopExit ==
    /\ pc = "L80" /\ ~LoopCond(start, today)
    /\ pc' = "L83"
    /\ UNCHANGED <<today, use_month, months, start, sel, start_date, end_date, prev_start, prev_end, exc>>
    /\ UNCHANGED runVars /\ UNCHANGED deltaVars

\* lines 83-86, 90-93: the user picks one of the options
SelectMonth ==
    /\ pc = "L83" /\ months # <<>>
    /\ \E i \in 1..Len(months) :
         LET s  == MonthLabel(months[i])
             sd == ReplaceDay1(ParseMonthLabel(s))
             ed == MonthEnd(sd)
             pe == PrevEnd(sd)
             ps == PrevStart(pe, sd, ed)
         IN /\ sel' = s
            /\ start_date' = fmt(sd) /\ end_date' = fmt(ed)
            /\ prev_start' = fmt(ps) /\ prev_end' = fmt(pe)
    /\ pc' = "L243"
    /\ UNCHANGED <<today, use_month, months, start, exc>>
    /\ UNCHANGED runVars /\ UNCHANGED deltaVars

\* lines 83-84 with no option: selectbox returns None and strptime raises
SelectNone ==
    /\ pc = "L83" /\ months = <<>>
    /\ exc' = [type |-> "TypeError", at |-> "get_date_ranges"]
    /\ pc' = "aborted"
    /\ UNCHANGED dateVars /\ UNCHANGED runVars /\ UNCHANGED deltaVars

InitDates == InitCommon /\ today \in Days
NextDates == FixedRange \/ MonthInit \/ LoopBody \/ LoopExit \/ SelectMonth \/ SelectNone
SpecDates == InitDates /\ [][NextDates]_vars

\* ------------------------------------------------ claims on the date windows
\* the date a returned 'YYYY-MM-DD' string denotes
StrDate(s) == Date(s[1], s[2], s[3])

\* the calendar day after dt, without ordinals
NextDay(dt) ==
    IF dt.d < DaysInMonth(dt.y, dt.m) THEN Date(dt.y, dt.m, dt.d + 1)
    ELSE IF dt.m < 12 THEN Date(dt.y, dt.m + 1, 1)
    ELSE Date(dt.y + 1, 1, 1)

WindowsReturned == start_date # <<>>

\* C1: in both modes, for every today and every selectable month, the
\* returned windows satisfy prev_end = start_date - 1 day, the previous
\* window spans as many days as the current one, start_date <= end_date and
\* prev_start <= prev_end.
C1_WindowsAdjacentEqualLength ==
    WindowsReturned =>
        LET sd == StrDate(start_date)
            ed == StrDate(end_date)
            ps == StrDate(prev_start)
            pe == StrDate(prev_end)
        IN /\ NextDay(pe) = sd
           /\ ToOrdinal(pe) - ToOrdinal(ps) = ToOrdinal(ed) - ToOrdinal(sd)
           /\ DateLE(sd, ed)
           /\ DateLE(ps, pe)

C1_Witness ==
    /\ WindowsReturned /\ ~use_month
    /\ today = Date(2028, 3, 1)
    /\ start_date = <<2028, 1, 31>> /\ prev_end = <<2028, 1, 30>>
    /\ prev_start = <<2027, 12, 31>>

\* C2: in month-selector mode start_date is day 1 of the selected month and
\* end_date is the last calendar day of that same month (February of leap
\* and non-leap years and December included).
C2_MonthWindowIsWholeMonth ==
    (WindowsReturned /\ use_month) =>
        LET sd == StrDate(start_date)
            ed == StrDate(end_date)
        IN /\ sd.d = 1 /\ sd.y = sel[2] /\ MonthNames[sd.m] = sel[1]
           /\ ed.y = sd.y /\ ed.m = sd.m
           /\ ed.d = DaysInMonth(sd.y, sd.m)
           /\ NextDay(ed).d = 1
           /\ (sd.m = 2 => ed.d = IF sd.y % 4 = 0 /\ sd.y # 2100 THEN 29 ELSE 28)
           /\ (sd.m = 12 => ed = Date(sd.y, 12, 31))

C2_Witness ==
    /\ WindowsReturned /\ use_month
    /\ sel = <<"February", 2028>>
    /\ start_date = <<2028, 2, 1>> /\ end_date = <<2028, 2, 29>>

\* the options the loop is expected to have built for a given today
MonthsExact(ms, t) ==
    /\ Len(ms) = (IF t.y < FirstYear THEN 0 ELSE (t.y - FirstYear) * 12 + t.m)
    /\ \A i \in 1..Len(ms) : ms[i].d = 1
    /\ Len(ms) > 0 => ms[1] = Date(FirstYear, 1, 1)
    /\ Len(ms) > 0 => (ms[Len(ms)].y = t.y /\ ms[Len(ms)].m = t.m)
    /\ \A i \in 1..(Len(ms) - 1) :
         \/ ms[i + 1].y = ms[i].y /\ ms[i + 1].m = ms[i].m + 1
         \/ ms[i + 1].y = ms[i].y + 1 /\ ms[i].m = 12 /\ ms[i + 1].m = 1
    /\ \A i, j \in 1..Len(ms) : i < j => (DateLE(ms[i], ms[j]) /\ ms[i] # ms[j])
    /\ (DateLE(Date(FirstYear, 1, 1), t) => Len(ms) > 0)

\* the number of options expected for a given today
ExpectedLen(t) == IF t.y < FirstYear THEN 0 ELSE (t.y - FirstYear) * 12 + t.m

\* C10: in month-selector mode the loop building the option list terminates
\* for every today (the loop is never stuck, every iteration adds one option
\* and the number of options stays below a bound fixed by today), and the
\* list is exactly the first-of-month dates from January 2025 up to and
\* including the month containing today, ascending, without duplicates or
\* gaps.
C10_MonthLoopTerminatesExact ==
    /\ [](pc = "L80" => Len(months) <= ExpectedLen(today))
    /\ [](pc = "L80" => ENABLED (LoopBody \/ LoopExit))
    /\ [][pc = "L80" => (pc' = "L83" \/ (pc' = "L80" /\ Len(months') = Len(months) + 1))]_vars
    /\ [](pc \in {"L83", "L243"} /\ use_month => MonthsExact(months, today))

C10_Witness ==
    /\ pc = "L83" /\ use_month
    /\ today = Date(2026, 1, 1)
    /\ Len(months) = 13 /\ months[13] = Date(2026, 1, 1)

\* ------------------------------------------- calculate_percentage_change
RECURSIVE GCD(_, _)
GCD(a, b) == IF b = 0 THEN a ELSE GCD(b, a % b)

Abs(x) == IF x < 0 THEN -x ELSE x

\* the value n / d as a reduced fraction with a positive denominator
Frac(n, d) ==
    LET g == GCD(Abs(n), Abs(d))
        sg == IF d < 0 THEN -1 ELSE 1
    IN [none |-> FALSE, num |-> (sg * n) \div g, den |-> Abs(d) \div g]

PctChangeNonPositive(cur, prev) ==
    IF prev <= 0 THEN NoDelta ELSE Frac((cur - prev) * 100, prev)

\* lines 64-70
calculate_percentage_change(cur, prev) ==
    IF prev = 0 THEN NoDelta ELSE Frac((cur - prev) * 100, prev)

Vals == (-MaxVal)..MaxVal

InitDelta ==
    /\ pc = "L64"
    /\ today = MinToday /\ use_month = FALSE
    /\ months = <<>> /\ start = NoDate /\ sel = <<>>
    /\ start_date = <<>> /\ end_date = <<>>
    /\ prev_start = <<>> /\ prev_end = <<>>
    /\ calls = <<>> /\ rendered = <<>>
    /\ cur_users = -1 /\ prev_users = -1 /\ delta_users = NoDelta
    /\ exc = NoExc
    /\ current \in Vals /\ previous \in Vals /\ result = NoDelta

\* one application of calculate_percentage_change(current, previous)
CalcDelta ==
    /\ pc = "L64"
    /\ result' = calculate_percentage_change(current, previous)
    /\ pc' = "L70"
    /\ UNCHANGED <<current, previous, exc>>
    /\ UNCHANGED dateVars /\ UNCHANGED runVars

NextDelta == CalcDelta
SpecDelta == InitDelta /\ [][NextDelta]_vars

\* C3: calculate_percentage_change returns None exactly when previous = 0
\* (for every current, 0 included) and otherwise the value
\* (current - previous) / previous * 100, without raising, also for
\* current < previous and previous < 0; (150,100) gives 50, (50,100) gives
\* -50 and (0,100) gives -100.
C3_PercentChange ==
    pc = "L70" =>
        /\ exc = NoExc
        /\ result.none <=> previous = 0
        /\ previous # 0 =>
             /\ result.den > 0
             /\ result.num * previous = (current - previous) * 100 * result.den
        /\ (current = 150 /\ previous = 100) => (result.num = 50 /\ result.den = 1)
        /\ (current = 50 /\ previous = 100) => (result.num = -50 /\ result.den = 1)
        /\ (current = 0 /\ previous = 100) => (result.num = -100 /\ result.den = 1)

C3_Witness ==
    /\ pc = "L70" /\ current = 50 /\ previous = -100
    /\ result = [none |-> FALSE, num |-> -150, den |-> 1]

\* ------------------------------------------------------ provider requests
Req(fn, api, sd, ed, dims, metric, desc, limit) ==
    [fn |-> fn, api |-> api, start |-> sd, end |-> ed, dims |-> dims,
     metric |-> metric, desc |-> desc, limit |-> limit]

\* lines 100-104
TotalUsersReq(sd, ed) ==
    Req("fetch_ga4_total_users", "ga4", sd, ed, <<>>, "totalUsers", FALSE, 0)

\* lines 110-115
TrafficReq(sd, ed) ==
    Req("fetch_ga4_traffic_acquisition", "ga4", sd, ed,
        <<"sessionDefaultChannelGroup">>, "sessions", FALSE, 0)

\* lines 194-199
OrganicReq(sd, ed) ==
    Req("fetch_sc_organic_traffic", "searchconsole", sd, ed,
        <<"page", "query">>, "clicks", FALSE, RowLimit)

\* lines 138-145
CountryReq(sd, ed) ==
    Req("fetch_ga4_active_users_by_country", "ga4", sd, ed,
        <<"country">>, "activeUsers", TRUE, CountryTopN)

\* lines 156-163
PrimaryReq(sd, ed) ==
    Req("fetch_ga4_pageviews", "ga4", sd, ed,
        <<"pageTitle", "screenClass">>, "screenPageViews", TRUE, PageTopN)

FallbackReqOtherMetric(sd, ed) ==
    Req("fetch_ga4_pageviews", "ga4", sd, ed,
        <<"pagePath">>, "sessions", TRUE, PageTopN)

\* lines 174-181
FallbackReq(sd, ed) ==
    Req("fetch_ga4_pageviews", "ga4", sd, ed,
        <<"pagePath">>, "screenPageViews", TRUE, PageTopN)

\* lines 212-228
GmbReq(sd, ed) ==
    Req("fetch_gmb_metrics", "businessprofileperformance", sd, ed,
        <<>>, "reportInsights", FALSE, 0)

\* what a provider call can come back with
Ga4Outcomes == {"ok", "InvalidArgument", "OtherError"}
TotalUsersOutcomes == Ga4Outcomes \cup {"EmptyRows"}
DiscoveryOutcomes == {"ok", "HttpError", "OtherError"}
Failures == {"InvalidArgument", "OtherError", "HttpError"}

\* the exception a call's outcome raises in the fetch function
Raised(out) == IF out = "EmptyRows" THEN "IndexError" ELSE out

Pending(r) == [req |-> r, res |-> "pending"]
SetLast(cs, out) == [cs EXCEPT ![Len(cs)].res = out]

\* ------------------------------------------------------------- rendering
W(kind, sec) == [w |-> kind, sec |-> sec, val |-> <<>>]

\* round n / d (d > 0) to the nearest integer, ties to even
RoundHalfEven(n, d) ==
    LET q == n \div d
        r == n % d
    IN IF 2 * r < d THEN q
       ELSE IF 2 * r > d THEN q + 1
       ELSE IF q % 2 = 0 THEN q ELSE q + 1

\* f"{delta_users:.2f}%": None has no ':.2f' format
FormatRaises(delta) == delta.none
Format2f(delta) == <<RoundHalfEven(delta.num * 100, delta.den), "%">>

Abort(type, at) ==
    /\ exc' = [type |-> type, at |-> at]
    /\ pc' = "aborted"

\* ------------------------------------------------------ the dashboard run
\* lines 243, 246: header, then the current-window total-users call
IssueCurUsers ==
    /\ pc = "L243"
    /\ rendered' = Append(rendered, W("header", "Website Analytics"))
    /\ calls' = Append(calls, Pending(TotalUsersReq(start_date, end_date)))
    /\ pc' = "L246"
    /\ UNCHANGED <<cur_users, prev_users, delta_users, exc>>
    /\ UNCHANGED dateVars /\ UNCHANGED deltaVars

\* lines 105-106, 246
ReturnCurUsers ==
    /\ pc = "L246"
    /\ \E out \in TotalUsersOutcomes, v \in 0..MaxUsers :
         /\ calls' = SetLast(calls, out)
         /\ IF out = "ok"
            THEN /\ cur_users' = v
                 /\ pc' = "L247"
                 /\ UNCHANGED exc
            ELSE /\ Abort(Raised(out), "fetch_ga4_total_users")
                 /\ UNCHANGED cur_users
    /\ UNCHANGED <<rendered, prev_users, delta_users>>
    /\ UNCHANGED dateVars /\ UNCHANGED deltaVars

\* line 247: the previous-window total-users call
IssuePrevUsers ==
    /\ pc = "L247"
    /\ calls' = Append(calls, Pending(TotalUsersReq(prev_start, prev_end)))
    /\ pc' = "L247w"
    /\ UNCHANGED <<rendered, cur_users, prev_users, delta_users, exc>>
    /\ UNCHANGED dateVars /\ UNCHANGED deltaVars

\* lines 105-106, 247-250
ReturnPrevUsers ==
    /\ pc = "L247w"
    /\ \E out \in TotalUsersOutcomes, v \in 0..MaxUsers :
         /\ calls' = SetLast(calls, out)
         /\ IF out = "ok"
            THEN LET delta == calculate_percentage_change(cur_users, v)
                     sub == Append(rendered, W("subheader", "Total Users"))
                 IN /\ prev_users' = v
                    /\ delta_users' = delta
                    /\ IF FormatRaises(delta)
                       THEN /\ rendered' = sub
                            /\ Abort("TypeError", "format")
                       ELSE /\ rendered' = Append(sub,
                                 [w |-> "metric", sec |-> "Total Users",
                                  val |-> <<cur_users>> \o Format2f(delta)])
                            /\ pc' = "L253"
                            /\ UNCHANGED exc
            ELSE /\ Abort(Raised(out), "fetch_ga4_total_users")
                 /\ UNCHANGED <<rendered, prev_users, delta_users>>
    /\ UNCHANGED cur_users
    /\ UNCHANGED dateVars /\ UNCHANGED deltaVars

\* line 253
IssueTraffic ==
    /\ pc = "L253"
    /\ calls' = Append(calls, Pending(TrafficReq(start_date, end_date)))
    /\ pc' = "L253w"
    /\ UNCHANGED <<rendered, cur_users, prev_users, delta_users, exc>>
    /\ UNCHANGED dateVars /\ UNCHANGED deltaVars

\* lines 116-117, 253-256
ReturnTraffic ==
    /\ pc = "L253w"
    /\ \E out \in Ga4Outcomes :
         /\ calls' = SetLast(calls, out)
         /\ IF out = "ok"
            THEN /\ rendered' = rendered \o
                        <<W("subheader", "Traffic Acquisition"),
                          W("table", "Traffic Acquisition")>>
                 /\ pc' = "L259"
                 /\ UNCHANGED exc
            ELSE /\ Abort(out, "fetch_ga4_traffic_acquisition")
                 /\ UNCHANGED rendered
    /\ UNCHANGED <<cur_users, prev_users, delta_users>>
    /\ UNCHANGED dateVars /\ UNCHANGED deltaVars

\* lines 259-261
IssueOrganic ==
    /\ pc = "L259"
    /\ rendered' = Append(rendered, W("subheader", "Organic Search Traffic"))
    /\ calls' = Append(calls, Pending(OrganicReq(start_date, end_date)))
    /\ pc' = "L261"
    /\ UNCHANGED <<cur_users, prev_users, delta_users, exc>>
    /\ UNCHANGED dateVars /\ UNCHANGED deltaVars

\* lines 200-201, 261-266
ReturnOrganic ==
    /\ pc = "L261"
    /\ \E out \in DiscoveryOutcomes :
         /\ calls' = SetLast(calls, out)
         /\ CASE out = "ok" ->
                   /\ rendered' = Append(rendered, W("dataframe", "Organic Search Traffic"))
                   /\ pc' = "L269"
                   /\ UNCHANGED exc
              [] out = "HttpError" ->
                   /\ rendered' = rendered \o
                          <<W("error", "Organic Search Traffic"),
                            W("error", "Organic Search Traffic")>>
                   /\ pc' = "L269"
                   /\ UNCHANGED exc
              [] OTHER ->
                   /\ Abort(out, "fetch_sc_organic_traffic")
                   /\ UNCHANGED rendered
    /\ UNCHANGED <<cur_users, prev_users, delta_users>>
    /\ UNCHANGED dateVars /\ UNCHANGED deltaVars

IssueCountryRenderFirst ==
    /\ pc = "L269"
    /\ rendered' = rendered \o
           <<W("subheader", "Active Users by Country"),
             W("table", "Active Users by Country")>>
    /\ calls' = Append(calls, Pending(CountryReq(start_date, end_date)))
    /\ pc' = "L269w"
    /\ UNCHANGED <<cur_users, prev_users, delta_users, exc>>
    /\ UNCHANGED dateVars /\ UNCHANGED deltaVars

\* line 269
IssueCountry ==
    /\ pc = "L269"
    /\ calls' = Append(calls, Pending(CountryReq(start_date, end_date)))
    /\ pc' = "L269w"
    /\ UNCHANGED <<rendered, cur_users, prev_users, delta_users, exc>>
    /\ UNCHANGED dateVars /\ UNCHANGED deltaVars

\* lines 146-147, 269-272
ReturnCountry ==
    /\ pc = "L269w"
    /\ \E out \in Ga4Outcomes :
         /\ calls' = SetLast(calls, out)
         /\ IF out = "ok"
            THEN /\ rendered' = rendered \o
                        <<W("subheader", "Active Users by Country"),
                          W("table", "Active Users by Country")>>
                 /\ pc' = "L275"
                 /\ UNCHANGED exc
            ELSE /\ Abort(out, "fetch_ga4_active_users_by_country")
                 /\ UNCHANGED rendered
    /\ UNCHANGED <<cur_users, prev_users, delta_users>>
    /\ UNCHANGED dateVars /\ UNCHANGED deltaVars

\* lines 275-277, 156-165: subheader, then the primary request
IssuePageviews ==
    /\ pc = "L275"
    /\ rendered' = Append(rendered, W("subheader", "Pages & Screens Views"))
    /\ calls' = Append(calls, Pending(PrimaryReq(start_date, end_date)))
    /\ pc' = "L165"
    /\ UNCHANGED <<cur_users, prev_users, delta_users, exc>>
    /\ UNCHANGED dateVars /\ UNCHANGED deltaVars

\* lines 165-182, 278-279: the primary request returns; on InvalidArgument
\* the fallback request is issued
ReturnPrimary ==
    /\ pc = "L165"
    /\ \E out \in Ga4Outcomes :
         CASE out = "ok" ->
                /\ calls' = SetLast(calls, out)
                /\ rendered' = Append(rendered, W("table", "Pages & Screens Views"))
                /\ pc' = "L284"
                /\ UNCHANGED exc
           [] out = "InvalidArgument" ->
                /\ calls' = Append(SetLast(calls, out),
                                   Pending(FallbackReq(start_date, end_date)))
                /\ pc' = "L182"
                /\ UNCHANGED <<rendered, exc>>
           [] OTHER ->
                /\ calls' = SetLast(calls, out)
                /\ Abort(out, "fetch_ga4_pageviews")
                /\ UNCHANGED rendered
    /\ UNCHANGED <<cur_users, prev_users, delta_users>>
    /\ UNCHANGED dateVars /\ UNCHANGED deltaVars

\* lines 182-187, 278-281: the fallback request returns
ReturnFallback ==
    /\ pc = "L182"
    /\ \E out \in Ga4Outcomes :
         /\ calls' = SetLast(calls, out)
         /\ CASE out = "ok" ->
                   /\ rendered' = Append(rendered, W("table", "Pages & Screens Views"))
                   /\ pc' = "L284"
                   /\ UNCHANGED exc
              [] out = "InvalidArgument" ->
                   /\ rendered' = Append(rendered, W("error", "Pages & Screens Views"))
                   /\ pc' = "L284"
                   /\ UNCHANGED exc
              [] OTHER ->
                   /\ Abort(out, "fetch_ga4_pageviews")
                   /\ UNCHANGED rendered
    /\ UNCHANGED <<cur_users, prev_users, delta_users>>
    /\ UNCHANGED dateVars /\ UNCHANGED deltaVars

\* lines 284-285, 212-228
IssueGmb ==
    /\ pc = "L284"
    /\ rendered' = Append(rendered, W("header", "Google My Business"))
    /\ calls' = Append(calls, Pending(GmbReq(start_date, end_date)))
    /\ pc' = "L285"
    /\ UNCHANGED <<cur_users, prev_users, delta_users, exc>>
    /\ UNCHANGED dateVars /\ UNCHANGED deltaVars

\* lines 225-230, 285-286: nothing catches a failure of the call
ReturnGmb ==
    /\ pc = "L285"
    /\ \E out \in DiscoveryOutcomes :
         /\ calls' = SetLast(calls, out)
         /\ IF out = "ok"
            THEN /\ rendered' = Append(rendered, W("write", "Google My Business"))
                 /\ pc' = "done"
                 /\ UNCHANGED exc
            ELSE /\ Abort(out, "fetch_gmb_metrics")
                 /\ UNCHANGED rendered
    /\ UNCHANGED <<cur_users, prev_users, delta_users>>
    /\ UNCHANGED dateVars /\ UNCHANGED deltaVars

RunDays == {Date(FirstYear - 1, 12, 31), Date(FirstYear, 2, 15)}

Init == InitCommon /\ today \in RunDays

Next ==
    \/ FixedRange \/ MonthInit \/ LoopBody \/ LoopExit \/ SelectMonth \/ SelectNone
    \/ IssueCurUsers \/ ReturnCurUsers \/ IssuePrevUsers \/ ReturnPrevUsers
    \/ IssueTraffic \/ ReturnTraffic
    \/ IssueOrganic \/ ReturnOrganic
    \/ IssueCountry \/ ReturnCountry
    \/ IssuePageviews \/ ReturnPrimary \/ ReturnFallback
    \/ IssueGmb \/ ReturnGmb

Spec == Init /\ [][Next]_vars

\* ------------------------------------------------ claims on the dashboard run
Sections == <<"Total Users", "Traffic Acquisition", "Organic Search Traffic",
              "Active Users by Country", "Pages & Screens Views",
              "Google My Business">>
SectionSet == {Sections[k] : k \in 1..Len(Sections)}
Idx(sec) == CHOOSE k \in 1..Len(Sections) : Sections[k] = sec

\* the fetch function feeding each section
FetchOf(sec) ==
    CASE sec = "Total Users" -> "fetch_ga4_total_users"
      [] sec = "Traffic Acquisition" -> "fetch_ga4_traffic_acquisition"
      [] sec = "Organic Search Traffic" -> "fetch_sc_organic_traffic"
      [] sec = "Active Users by Country" -> "fetch_ga4_active_users_by_country"
      [] sec = "Pages & Screens Views" -> "fetch_ga4_pageviews"
      [] sec = "Google My Business" -> "fetch_gmb_metrics"
SectionOfFetch(fn) == CHOOSE sec \in SectionSet : FetchOf(sec) = fn

DataKinds == {"metric", "table", "dataframe", "write"}
ContentKinds == DataKinds \cup {"error"}
HeadingKinds == {"header", "subheader"}

HasData(sec) == \E i \in 1..Len(rendered) : rendered[i].sec = sec /\ rendered[i].w \in DataKinds
HasError(sec) == \E i \in 1..Len(rendered) : rendered[i].sec = sec /\ rendered[i].w = "error"
Produced(sec) == HasData(sec) \/ HasError(sec)

CallsOf(fn) == {i \in 1..Len(calls) : calls[i].req.fn = fn}
PendingCalls == {i \in 1..Len(calls) : calls[i].res = "pending"}
FailedCalls == {i \in 1..Len(calls) : calls[i].res \in Failures}
RunEnded == pc \in {"done", "aborted"}

\* C4: in a run where exactly one provider call fails with a provider
\* request error and every other call succeeds, every metric section is
\* still produced: the failing metric shows an error marker, all the others
\* show their data.
C4_OneFailureKeepsAllSections ==
    (RunEnded /\ Cardinality(FailedCalls) = 1 /\
     \A i \in 1..Len(calls) : calls[i].res \in Failures \cup {"ok"}) =>
        \A sec \in SectionSet :
            /\ Produced(sec)
            /\ IF \E i \in FailedCalls : calls[i].req.fn = FetchOf(sec)
               THEN HasError(sec) ELSE HasData(sec)

\* C5: when the Google My Business backend call fails (HttpError or any
\* other failure), fetch_gmb_metrics propagates no exception: the failure is
\* returned as an error marker.
C5_GmbFailureIsCaptured ==
    (\E i \in CallsOf("fetch_gmb_metrics") : calls[i].res \in Failures) =>
        /\ exc = NoExc
        /\ pc # "aborted"
        /\ HasError("Google My Business")

PrimaryDims == <<"pageTitle", "screenClass">>
PrimaryCalls == {i \in CallsOf("fetch_ga4_pageviews") : calls[i].req.dims = PrimaryDims}
FallbackCalls == {i \in CallsOf("fetch_ga4_pageviews") : calls[i].req.dims # PrimaryDims}
PageviewsErrorReachesCaller ==
    HasError("Pages & Screens Views") \/ exc.at = "fetch_ga4_pageviews"

\* C6: when the primary pageviews request is rejected as an invalid
\* argument, exactly one fallback request is issued, grouped by pagePath, with
\* the same metric (screenPageViews), window, descending ordering and top_n
\* limit; no fallback is issued when the primary is not rejected so; and
\* after such a rejection an error reaches the caller only if the fallback
\* fails too.
C6_PageviewsFallback ==
    /\ Cardinality(PrimaryCalls) <= 1
    /\ \A i \in PrimaryCalls :
         IF calls[i].res = "InvalidArgument"
         THEN /\ FallbackCalls = {i + 1}
              /\ calls[i + 1].req = [calls[i].req EXCEPT !.dims = <<"pagePath">>]
              /\ calls[i + 1].req.metric = "screenPageViews"
              /\ calls[i + 1].req.desc
              /\ calls[i + 1].req.limit = PageTopN
              /\ calls[i + 1].req.start = start_date
              /\ calls[i + 1].req.end = end_date
              /\ PageviewsErrorReachesCaller => calls[i + 1].res \in Failures
         ELSE FallbackCalls = {}
    /\ PrimaryCalls = {} => FallbackCalls = {}

C6_Witness ==
    /\ \E i \in PrimaryCalls :
         /\ calls[i].res = "InvalidArgument"
         /\ FallbackCalls = {i + 1}
         /\ calls[i + 1].res = "InvalidArgument"
    /\ HasError("Pages & Screens Views")
    /\ pc = "L284"

C8_EveryMetricBothWindows ==
    pc = "done" =>
        \A sec \in SectionSet :
            /\ Cardinality({i \in CallsOf(FetchOf(sec)) \ FallbackCalls :
                   calls[i].req.start = start_date /\ calls[i].req.end = end_date}) = 1
            /\ Cardinality({i \in CallsOf(FetchOf(sec)) \ FallbackCalls :
                   calls[i].req.start = prev_start /\ calls[i].req.end = prev_end}) = 1

\* C9: when both total-users fetches succeed, the Total Users metric is
\* rendered and the run proceeds to the Traffic Acquisition section for
\* every pair of counts, previous = 0 included: formatting the delta never
\* raises.
C9_TotalUsersAlwaysRendered ==
    (Len(calls) >= 2 /\ calls[1].res = "ok" /\ calls[2].res = "ok") =>
        /\ HasData("Total Users")
        /\ exc.at # "format"
        /\ pc # "aborted" \/ Len(calls) > 2

====
